---- MODULE Spec2Model ----
(***************************************************************************)
(* labcal: the extraction and normalization pipeline of                   *)
(* src/labcal/process_cal.py.                                              *)
(*                                                                         *)
(*   create_dataframe_from_calendar : raw events -> raw table              *)
(*   clean_calendar_dataframe       : raw table  -> normalized table       *)
(*   process_description            : paragraphs -> 13 extracted values    *)
(*                                                                         *)
(* A Python str is a sequence of one-character strings, so that split,     *)
(* strip, lower, startswith, `in` and the regular expressions of the code  *)
(* are computed character by character.  Python's None, True and False     *)
(* are the one-element sequences <<"None">>, <<"True">>, <<"False">>,      *)
(* which no str equals (every element of a str is a single character).     *)
(***************************************************************************)
EXTENDS Integers, Sequences, FiniteSets, TLC

VARIABLES
    cal,                \* the input: a sequence of events, each a sequence of raw lines
    verbose,            \* the flag both functions are called with
    hash_order,         \* the keys in the order a set of them iterates in this run
    pc,                 \* position of the pipeline
    df,                 \* the table create_dataframe_from_calendar returns
    temp_df_processed,  \* the working table of clean_calendar_dataframe
    row,                \* index of the row .apply() is at
    item,               \* index of the paragraph process_description is at
    locals,             \* the local variables of the running process_description
    applied,            \* the pd.Series process_description returned, row by row
    out,                \* the table clean_calendar_dataframe returns
    exc                 \* the exception that ended the pipeline, or "none"

vars == <<cal, verbose, hash_order, pc, df, temp_df_processed, row, item, locals, applied, out, exc>>

-----------------------------------------------------------------------------
(* Bounds of the model *)

\* events in the calendar
MaxEvents == 2
\* description paragraphs in the whole calendar
MaxParas == 2
\* description paragraphs of the event that is run under every iteration order
MaxOrderParas == 1
\* lines of the event whose lines are arbitrary
MaxLines == 3

-----------------------------------------------------------------------------
(* Python values *)

None == <<"None">>
True == <<"True">>
False == <<"False">>

\* bool(v) for the values the code tests: None, False and '' are falsy
Truthy(v) == v # None /\ v # False /\ v # <<>>

PyBool(b) == IF b THEN True ELSE False

-----------------------------------------------------------------------------
(* str methods and the regular expressions the code uses *)

Whitespace == {" ", "\t", "\n", "\r"}
Digits == <<"0", "1", "2", "3", "4", "5", "6", "7", "8", "9">>
DigitSet == {Digits[k] : k \in 1..10}

Uppers == <<"A","B","C","D","E","F","G","H","I","J","K","L","M","N","O","P","Q","R","S","T","U","V","W","X","Y","Z","Ä","Ö","Ü">>
Lowers == <<"a","b","c","d","e","f","g","h","i","j","k","l","m","n","o","p","q","r","s","t","u","v","w","x","y","z","ä","ö","ü">>

LowerChar(c) ==
    IF \E k \in 1..Len(Uppers) : Uppers[k] = c
    THEN Lowers[CHOOSE k \in 1..Len(Uppers) : Uppers[k] = c]
    ELSE c

\* the sequence f as an explicit tuple, each element evaluated once
tuple(f) == SubSeq(f, 1, Len(f))

\* s.lower()
lower(s) == tuple([k \in 1..Len(s) |-> LowerChar(s[k])])

\* s.startswith(p)
startswith(s, p) == Len(p) <= Len(s) /\ SubSeq(s, 1, Len(p)) = p

\* sub in s
contains(s, sub) ==
    \E k \in 0..(Len(s) - Len(sub)) : SubSeq(s, k + 1, k + Len(sub)) = sub

\* index of the first character of s that is in set C, 0 when there is none
FirstIn(s, C) ==
    IF \E k \in 1..Len(s) : s[k] \in C
    THEN CHOOSE k \in 1..Len(s) : s[k] \in C /\ \A m \in 1..(k - 1) : s[m] \notin C
    ELSE 0

\* index of the first character of s that is not in set C, Len(s)+1 when all are
FirstNotIn(s, C) ==
    IF \E k \in 1..Len(s) : s[k] \notin C
    THEN CHOOSE k \in 1..Len(s) : s[k] \notin C /\ \A m \in 1..(k - 1) : s[m] \in C
    ELSE Len(s) + 1

\* index of the last character of s that is not in set C, 0 when all are
LastNotIn(s, C) ==
    IF \E k \in 1..Len(s) : s[k] \notin C
    THEN CHOOSE k \in 1..Len(s) : s[k] \notin C /\ \A m \in (k + 1)..Len(s) : s[m] \in C
    ELSE 0

\* s.strip()
strip(s) == SubSeq(s, FirstNotIn(s, Whitespace), LastNotIn(s, Whitespace))

\* s.split(sep, maxsplit=1) and re.split(<one of C>, s, maxsplit=1)
split_once(s, C) ==
    LET k == FirstIn(s, C)
    IN  IF k = 0 THEN <<s>> ELSE <<SubSeq(s, 1, k - 1), SubSeq(s, k + 1, Len(s))>>

\* s.split(c)
RECURSIVE split(_, _)
split(s, c) ==
    LET k == FirstIn(s, {c})
    IN  IF k = 0 THEN <<s>> ELSE <<SubSeq(s, 1, k - 1)>> \o split(SubSeq(s, k + 1, Len(s)), c)

\* the concatenation of parts[lo], ..., parts[hi]
RECURSIVE concat(_, _, _)
concat(parts, lo, hi) ==
    IF lo > hi THEN <<>>
    ELSE IF lo = hi THEN parts[lo]
    ELSE concat(parts, lo, (lo + hi) \div 2) \o concat(parts, (lo + hi) \div 2 + 1, hi)

\* re.sub(r'\\n', '¶', s): every backslash followed by n becomes the stop character
\* (two matches cannot overlap: a match ends in n, and starts with a backslash)
sub_newline(s) ==
    LET matches(k) == k >= 1 /\ k < Len(s) /\ s[k] = "\\" /\ s[k + 1] = "n"
    IN  concat(tuple([k \in 1..Len(s) |-> IF matches(k) THEN <<"¶">>
                                          ELSE IF matches(k - 1) THEN <<>>
                                          ELSE <<s[k]>>]),
               1, Len(s))

\* re.sub(<c>, '', s)
remove(s, c) == SelectSeq(s, LAMBDA x : x # c)

\* re.match(r'\d+', s): the run of digits s starts with, None when it starts with none
match_digits(s) ==
    LET k == FirstNotIn(s, DigitSet)
    IN  IF k = 1 THEN None ELSE SubSeq(s, 1, k - 1)

\* re.search(r'\d+', s): the first run of digits of s, None when it has none
search_digits(s) ==
    LET k == FirstIn(s, DigitSet)
    IN  IF k = 0 THEN None ELSE match_digits(SubSeq(s, k, Len(s)))

DigitValue(c) == (CHOOSE k \in 1..10 : Digits[k] = c) - 1

\* int(s) for a run of digits
RECURSIVE int(_)
int(s) ==
    IF Len(s) = 0 THEN 0 ELSE 10 * int(SubSeq(s, 1, Len(s) - 1)) + DigitValue(s[Len(s)])

-----------------------------------------------------------------------------
(* Line Sanitizer and Key/Value Decoder *)

\* clean_event_data, one line
clean_line(line) == strip(remove(sub_newline(remove(line, "\r")), "\\"))

clean_event_data(event) == tuple([k \in 1..Len(event) |-> clean_line(event[k])])

\* parse_event: the lines with a colon, split at the first; a later line of the
\* same key overwrites the earlier one.  The dict is a function on its keys.
HasColon(line) == FirstIn(line, {":"}) # 0
KeyOf(line) == split_once(line, {":"})[1]
ValueOf(line) == split_once(line, {":"})[2]

\* the dict with the value of the first line of each key instead of the last
parse_event_first_kept(event) ==
    LET keys == {KeyOf(event[k]) : k \in {m \in 1..Len(event) : HasColon(event[m])}}
        first(key) == CHOOSE k \in 1..Len(event) :
                         /\ HasColon(event[k]) /\ KeyOf(event[k]) = key
                         /\ \A m \in 1..(k - 1) :
                               ~(HasColon(event[m]) /\ KeyOf(event[m]) = key)
    IN  [key \in keys |-> ValueOf(event[first(key)])]

parse_event(event) ==
    LET keys == {KeyOf(event[k]) : k \in {m \in 1..Len(event) : HasColon(event[m])}}
        last(key) == CHOOSE k \in 1..Len(event) :
                        /\ HasColon(event[k]) /\ KeyOf(event[k]) = key
                        /\ \A m \in (k + 1)..Len(event) :
                              ~(HasColon(event[m]) /\ KeyOf(event[m]) = key)
    IN  [key \in keys |-> ValueOf(event[last(key)])]

-----------------------------------------------------------------------------
(* Canonicalization tables: the dicts named patterns, in insertion order *)

CategoryPatterns == <<
    [label |-> <<"I","n","t","e","r","n","e"," ","V","e","r","a","n","s","t","a","l","t","u","n","g">>, keys |-> <<<<"i","n","t","e","r","n","e"," ","v","e","r","a","n">>, <<"u","b"," ","i","n","t","e","r","n">>>>],
    [label |-> <<"F","ü","h","r","u","n","g">>, keys |-> <<<<"v","e","r","a","n","s","t","a","l","t","u","n","g","/","f","ü","h","r","u","n","g">>>>],
    [label |-> <<"L","e","h","r","v","e","r","a","n","s","t","a","l","t","u","n","g">>, keys |-> <<<<"s","e","m","i","n","a","r">>>>],
    [label |-> <<"W","o","r","k","s","h","o","p">>, keys |-> <<<<"v","r","-","e","i","n","f","ü","h","r","u","n","g">>>>] >>

\* a table in which a label holds a key of an earlier label
OrganiserPatterns_overlapping == <<
    [label |-> <<"U","n","i">>, keys |-> <<<<"u","n","i">>>>],
    [label |-> <<"U","B"," ","U","n","i">>, keys |-> <<<<"u","b">>>>] >>

OrganiserPatterns == <<
    [label |-> <<"U","B">>, keys |-> <<<<"u","b">>>>],
    [label |-> <<"U","n","i">>, keys |-> <<<<"u","n","i">>>>] >>

OrganiserDetailPatterns == <<
    [label |-> <<"I","n","s","t","i","t","u","t"," ","f","ü","r"," ","S","p","o","r","t">>, keys |-> <<<<"s","p","o","r","t">>>>],
    [label |-> <<"S","o","c","i","a","l"," ","S","c","i","e","n","c","e">>, keys |-> <<<<"s","o","w","i">>, <<"s","o","c","i","a","l"," ","s","c","i","e","n","c","e">>, <<"p","o","w","i">>>>],
    [label |-> <<"B","W","L">>, keys |-> <<<<"l","s"," ","b","w","l">>, <<"w","i","r","t","s","c","h","a","f","t","s","p","ä","d","a","g">>, <<"s","a","l","e","s"," ","s","e","r","v","i","c","e","s">>>>],
    [label |-> <<"J","u","r","a">>, keys |-> <<<<"f","a","k"," ","j","u","r","a">>, <<"r","e","c","h","t","s","w","i","s","s","e","n","s","c","h","a","f","t">>>>],
    [label |-> <<"W","i","r","t","s","c","h","a","f","t","s","i","n","f","o","r","m","a","t","i","k">>, keys |-> <<<<"w","i","r","t","s","c","h","a","f","t","s","i","n","f","o","r","m","a","t","i","k">>>>],
    [label |-> <<"P","h","i","l","o","s","o","p","h","i","s","c","h","e"," ","F","a","k","u","l","t","ä","t">>,
     keys |-> <<<<"p","h","i","l","o","s","o","p","h","i","s","c","h","e">>, <<"p","h","i","l"," ","f","a","k">>, <<"p","h","i","l","f","a","k">>, <<"a","n","g","l","i","s","t","i","k">>, <<"g","e","r","m","a","n","i","s","t","i","k">>>>],
    [label |-> <<"S","t","u","d",".","-","I","n","i","t","i","a","t","i","v","e"," ","X">>, keys |-> <<<<"s","t","u","d","e","n","t"," ","g","r","o","u","p"," ","x">>>>],
    [label |-> <<"S","t","u","d",".","-","I","n","i","t","i","a","t","i","v","e"," ","Y">>, keys |-> <<<<"s","t","u","d","e","n","t"," ","g","r","o","u","p"," ","y">>>>],
    [label |-> <<"S","t","u","d",".","-","I","n","i","t","i","a","t","i","v","e"," ","Z">>, keys |-> <<<<"s","t","u","d","e","n","t"," ","g","r","o","u","p"," ","z">>>>],
    [label |-> <<"U","n","i","v","e","r","s","i","t","ä","t","s","-","I","T">>, keys |-> <<<<"u","n","i"," ","i","t">>>>],
    [label |-> <<"U","n","i","v","e","r","s","i","t","ä","t","s","b","i","b","l","i","o","t","h","e","k">>, keys |-> <<<<"e","x","p","l","a","b">>, <<"u","b">>, <<"f","d","z">>>>],
    [label |-> <<"U","n","i"," ","V","e","r","w","a","l","t","u","n","g">>, keys |-> <<<<"v","e","r","w","a","l","t","u","n","g">>>>],
    [label |-> <<"F","a","c","h","s","c","h","a","f","t","s","r","a","t">>, keys |-> <<<<"f","s","r">>, <<"f","a","c","h","s","c","h","a","f","t","s","r">>>>] >>

EquipmentPatterns == <<
    [var |-> "equipment_vr", keys |-> <<<<"v","r">>, <<"v","i","r","t","u","a","l">>>>],
    [var |-> "equipment_eye_tracking", keys |-> <<<<"e","y","e">>, <<"t","r","a","c","k","i","n","g">>>>],
    [var |-> "equipment_clevertouch", keys |-> <<<<"c","l","e","v","e","r">>, <<"m","o","b","i","l","e","r">>>>],
    [var |-> "equipment_large_monitor",
     keys |-> <<<<"p","r","a","e","s","e","n","t","a","t","i","o","n","s">>, <<"g","r","o","ß","e","r"," ","m","o","n","i","t","o","r">>, <<"p","r","ä","s","e","n","t","a","t","i","o","n","s">>>>],
    [var |-> "equipment_design_thinking",
     keys |-> <<<<"d","t">>, <<"d","e","s","i","g","n"," ","t","h","i","n","k","i","n","g">>, <<"t","h","i","n","k","i","n","g">>>>] >>

\* the same test without .lower(): matches only text written in lower case
any_key_in_case_sensitive(keys, s) == \E k \in 1..Len(keys) : contains(s, keys[k])

\* any(key in s.lower() for key in keys); the keys of the tables hold no regex
\* metacharacter, so re.search(key, s.lower()) is the same test
any_key_in(keys, s) == \E k \in 1..Len(keys) : contains(lower(s), keys[k])

\* the label of the last entry with a matching key
last_match(patterns, s) ==
    IF \E k \in 1..Len(patterns) : any_key_in(patterns[k].keys, s)
    THEN patterns[CHOOSE k \in 1..Len(patterns) :
                    /\ any_key_in(patterns[k].keys, s)
                    /\ \A m \in (k + 1)..Len(patterns) : ~any_key_in(patterns[m].keys, s)].label
    ELSE s

\* for clean_string, keys in patterns.items(): first match returns clean_string
first_match(patterns, s) ==
    IF \E k \in 1..Len(patterns) : any_key_in(patterns[k].keys, s)
    THEN patterns[CHOOSE k \in 1..Len(patterns) :
                    /\ any_key_in(patterns[k].keys, s)
                    /\ \A m \in 1..(k - 1) : ~any_key_in(patterns[m].keys, s)].label
    ELSE s

clean_event_category(event_category) == first_match(CategoryPatterns, event_category)

clean_organiser(organiser) == first_match(OrganiserPatterns, organiser)

clean_organiser_detail(organiser_detail) == first_match(OrganiserDetailPatterns, organiser_detail)

NoEquipment ==
    [equipment_vr |-> FALSE, equipment_eye_tracking |-> FALSE, equipment_clevertouch |-> FALSE,
     equipment_large_monitor |-> FALSE, equipment_design_thinking |-> FALSE]

\* the if/elif chain on var of clean_equipment
set_flag(flags, var) ==
    IF var = "equipment_vr" THEN [flags EXCEPT !.equipment_vr = TRUE]
    ELSE IF var = "equipment_eye_tracking" THEN [flags EXCEPT !.equipment_eye_tracking = TRUE]
    ELSE IF var = "equipment_clevertouch" THEN [flags EXCEPT !.equipment_clevertouch = TRUE]
    ELSE IF var = "equipment_large_monitor" THEN [flags EXCEPT !.equipment_large_monitor = TRUE]
    ELSE IF var = "equipment_design_thinking" THEN [flags EXCEPT !.equipment_design_thinking = TRUE]
    ELSE flags

\* the inner loop of clean_equipment: every group is tested against the item
RECURSIVE test_groups(_, _, _)
test_groups(flags, an_item, k) ==
    IF k > Len(EquipmentPatterns) THEN flags
    ELSE test_groups(IF any_key_in(EquipmentPatterns[k].keys, an_item)
                     THEN set_flag(flags, EquipmentPatterns[k].var)
                     ELSE flags,
                     an_item, k + 1)

\* the outer loop of clean_equipment
RECURSIVE test_items(_, _, _)
test_items(flags, equipment_split, k) ==
    IF k > Len(equipment_split) THEN flags
    ELSE test_items(test_groups(flags, equipment_split[k], 1), equipment_split, k + 1)

clean_equipment(equipment_split) == test_items(NoEquipment, equipment_split, 1)

-----------------------------------------------------------------------------
(* process_description: its local variables and one rule per label *)

\* lines 164-177; equipment_split is not bound until a Technik paragraph binds it
InitLocals ==
    [event_category |-> None, event_description |-> None, organiser |-> None,
     organiser_detail |-> None, participant_count |-> None, equipment |-> None,
     equipment_vr |-> None, equipment_eye_tracking |-> None,
     equipment_clevertouch |-> None, equipment_large_monitor |-> None,
     equipment_design_thinking |-> None, catering |-> None, notes |-> None,
     equipment_split |-> <<>>, equipment_split_bound |-> FALSE]

\* what processing one paragraph leaves: the locals, and the exception raised if any
Completed(l) == [locals |-> l, exc |-> "none"]
Raised(l, e) == [locals |-> l, exc |-> e]

\* the text after the colon of the label, whether a space follows it or not
split_item_after_colon(an_item) ==
    LET parts == split_once(an_item, {":"})
    IN  IF Len(parts) > 1 THEN strip(parts[2]) ELSE None

\* lines 180-182
split_item(an_item) ==
    LET parts == split_once(an_item, {" "})
    IN  IF Len(parts) > 1 THEN strip(parts[2]) ELSE None

\* re.search(r':|\s', result)
has_colon_or_space(result) == FirstIn(result, {":"} \cup Whitespace) # 0

Kategorie(l, an_item) ==
    LET result == split_item(an_item)
    IN  IF Truthy(result) /\ has_colon_or_space(result)
        THEN LET event_category_split == split_once(result, {":", ","})
                 l1 == IF Len(event_category_split) > 1
                       THEN [l EXCEPT !.event_category = strip(event_category_split[1]),
                                      !.event_description = strip(event_category_split[2])]
                       ELSE l
             IN  Completed(IF Truthy(l1.event_category)
                           THEN [l1 EXCEPT !.event_category = clean_event_category(@)]
                           ELSE l1)
        ELSE Completed(l)

Veranstalter(l, an_item) ==
    LET result == split_item(an_item)
    IN  IF Truthy(result) /\ has_colon_or_space(result)
        THEN LET organiser_split == split_once(result, {":"})
                 l1 == IF Len(organiser_split) # 1
                       THEN [l EXCEPT !.organiser = strip(organiser_split[1]),
                                      !.organiser_detail = strip(organiser_split[2])]
                       ELSE l
                 l2 == IF Truthy(l1.organiser)
                       THEN [l1 EXCEPT !.organiser = clean_organiser(@)]
                       ELSE l1
             IN  Completed(IF Truthy(l2.organiser_detail)
                           THEN [l2 EXCEPT !.organiser_detail = clean_organiser_detail(@)]
                           ELSE [l2 EXCEPT !.organiser_detail = l2.organiser])
        ELSE Completed(l)

\* re.match(...).group(0) on no match is a call of group on None: AttributeError
Teilnehmer(l, an_item) ==
    LET result == split_item(an_item)
    IN  IF Truthy(result)
        THEN LET stripped == strip(result)
             IN  IF Truthy(stripped) /\ contains(stripped, <<"-">>)
                 THEN LET participant_split == split(stripped, "-")
                          found == match_digits(strip(participant_split[2]))
                      IN  IF found = None
                          THEN Raised(l, "AttributeError")
                          ELSE Completed([l EXCEPT !.participant_count = found])
                 ELSE Completed([l EXCEPT !.participant_count = search_digits(stripped)])
        ELSE Completed([l EXCEPT !.participant_count = None])

\* `True if equipment_dict else False`: a dict with keys is true whatever it holds
any_true_if_nonempty(equipment_dict) == DOMAIN equipment_dict # {}

\* line 371: True in equipment_dict.values()
any_true(equipment_dict) == \E f \in DOMAIN equipment_dict : equipment_dict[f]

\* `if equipment_split:` reads a local no earlier Technik paragraph of this call
\* has bound: UnboundLocalError
Technik(l, an_item) ==
    LET result == split_item(an_item)
        l1 == IF Truthy(result)
              THEN [l EXCEPT !.equipment_split =
                                 LET parts == split(result, ",")
                                 IN  tuple([k \in 1..Len(parts) |-> strip(parts[k])]),
                             !.equipment_split_bound = TRUE]
              ELSE [l EXCEPT !.equipment = False]
    IN  IF ~l1.equipment_split_bound
        THEN Raised(l1, "UnboundLocalError")
        ELSE IF l1.equipment_split # <<>>
        THEN LET equipment_dict == clean_equipment(l1.equipment_split)
             IN  Completed([l1 EXCEPT
                     !.equipment = PyBool(any_true(equipment_dict)),
                     !.equipment_vr = PyBool(equipment_dict.equipment_vr),
                     !.equipment_eye_tracking = PyBool(equipment_dict.equipment_eye_tracking),
                     !.equipment_clevertouch = PyBool(equipment_dict.equipment_clevertouch),
                     !.equipment_large_monitor = PyBool(equipment_dict.equipment_large_monitor),
                     !.equipment_design_thinking = PyBool(equipment_dict.equipment_design_thinking)])
        ELSE Completed(l1)

Catering(l, an_item) ==
    LET result == split_item(an_item)
    IN  IF Truthy(result) /\ contains(result, <<"j","a">>)
        THEN Completed([l EXCEPT !.catering = True])
        ELSE Completed([l EXCEPT !.catering = False])

\* the rule writing its result into fresh locals instead of the current ones
Anmerkung_into_fresh(l, an_item) ==
    LET result == split_item(an_item)
    IN  IF Truthy(result)
        THEN Completed([InitLocals EXCEPT !.notes = strip(result)])
        ELSE Completed([InitLocals EXCEPT !.notes = None])

Anmerkung(l, an_item) ==
    LET result == split_item(an_item)
    IN  IF Truthy(result)
        THEN Completed([l EXCEPT !.notes = strip(result)])
        ELSE Completed([l EXCEPT !.notes = None])

Labels == <<<<"K","a","t","e","g","o","r","i","e">>, <<"V","e","r","a","n","s","t","a","l","t","e","r">>, <<"T","e","i","l","n","e","h","m","e","r">>, <<"T","e","c","h","n","i","k">>, <<"C","a","t","e","r","i","n","g">>, <<"A","n","m","e","r","k","u","n","g">>>>

\* the if/elif chain of startswith tests: the first label the paragraph starts
\* with, 0 when it starts with none
Label(an_item) ==
    IF \E k \in 1..Len(Labels) : startswith(an_item, Labels[k])
    THEN CHOOSE k \in 1..Len(Labels) :
            /\ startswith(an_item, Labels[k])
            /\ \A m \in 1..(k - 1) : ~startswith(an_item, Labels[m])
    ELSE 0

\* the body of the loop over the paragraphs, for one paragraph
process_item(l, an_item) ==
    CASE Label(an_item) = 1 -> Kategorie(l, an_item)
      [] Label(an_item) = 2 -> Veranstalter(l, an_item)
      [] Label(an_item) = 3 -> Teilnehmer(l, an_item)
      [] Label(an_item) = 4 -> Technik(l, an_item)
      [] Label(an_item) = 5 -> Catering(l, an_item)
      [] Label(an_item) = 6 -> Anmerkung(l, an_item)
      [] OTHER -> Completed(l)

\* the thirteen values with the large-monitor flag before the design-thinking
\* flag, the order in which clean_equipment returns them
Series_monitor_first(l) ==
    <<l.event_category, l.event_description, l.organiser, l.organiser_detail,
      l.participant_count, l.equipment, l.equipment_vr, l.equipment_eye_tracking,
      l.equipment_clevertouch, l.equipment_large_monitor, l.equipment_design_thinking,
      l.catering, l.notes>>

\* lines 394-396: the thirteen values, in the order of the returned pd.Series
Series(l) ==
    <<l.event_category, l.event_description, l.organiser, l.organiser_detail,
      l.participant_count, l.equipment, l.equipment_vr, l.equipment_eye_tracking,
      l.equipment_clevertouch, l.equipment_design_thinking, l.equipment_large_monitor,
      l.catering, l.notes>>

-----------------------------------------------------------------------------
(* The tables.  A working table is [columns, order, rows]: columns is the     *)
(* set of the column names, order the same names as the table lists them,    *)
(* rows a sequence of functions from the column names to the cells.  The     *)
(* returned table is [columns, rows] with columns the sequence of its names. *)

NoTable == [columns |-> {}, order |-> <<>>, rows |-> <<>>]

\* the members of a set of keys in the order the set iterates
iteration(keys, key_order) == SelectSeq(key_order, LAMBDA key : key \in keys)

\* the names of order that are in kept
restrict(order, kept) == SelectSeq(order, LAMBDA col : col \in kept)

\* the cell of event_desc_list for a row without description: .str.split gives
\* no list there
NoList == <<None>>

\* lines 99-131
create_dataframe_from_calendar(calendar, key_order) ==
    LET calendar_data == tuple([k \in 1..Len(calendar) |-> clean_event_data(calendar[k])])
        parsed_events == tuple([k \in 1..Len(calendar) |-> parse_event(calendar_data[k])])
        columns == UNION {DOMAIN parsed_events[k] : k \in 1..Len(calendar)}
    IN  IF columns = {}
        THEN NoTable
        ELSE [columns |-> columns,
              order |-> iteration(columns, key_order),
              rows |-> [k \in 1..Len(calendar) |->
                          [col \in columns |-> IF col \in DOMAIN parsed_events[k]
                                               THEN parsed_events[k][col]
                                               ELSE None]]]

\* lines 433-435: dropna(axis=1, thresh=len/100*5) keeps the columns with at least
\* thresh non-null cells
non_null(table, col) == Cardinality({k \in 1..Len(table.rows) : table.rows[k][col] # None})

dropna(table) ==
    LET kept == {col \in table.columns : 100 * non_null(table, col) >= 5 * Len(table.rows)}
    IN  [columns |-> kept,
         order |-> restrict(table.order, kept),
         rows |-> [k \in 1..Len(table.rows) |-> [col \in kept |-> table.rows[k][col]]]]

\* lines 438-443
columns_to_drop ==
    {<<"X","-","M","I","C","R","O","S","O","F","T","-","C","D","O","-","B","U","S","Y","S","T","A","T","U","S">>, <<"C","L","A","S","S">>, <<"P","R","I","O","R","I","T","Y">>, <<"D","T","S","T","A","M","P">>, <<"T","R","A","N","S","P">>,
     <<"S","E","Q","U","E","N","C","E">>, <<"L","A","S","T","-","M","O","D","I","F","I","E","D">>, <<"B","E","G","I","N">>, <<"E","N","D">>, <<"S","T","A","T","U","S">>}

drop_columns(table) ==
    LET kept == table.columns \ columns_to_drop
    IN  [columns |-> kept,
         order |-> restrict(table.order, kept),
         rows |-> [k \in 1..Len(table.rows) |-> [col \in kept |-> table.rows[k][col]]]]

\* line 446: the new column DESCRIPTION_RAW
str_split(value) == IF value = None THEN NoList ELSE split(value, "¶")

add_description_raw(table) ==
    LET columns == table.columns \cup {<<"D","E","S","C","R","I","P","T","I","O","N","_","R","A","W">>}
    IN  [columns |-> columns,
         order |-> Append(table.order, <<"D","E","S","C","R","I","P","T","I","O","N","_","R","A","W">>),
         rows |-> [k \in 1..Len(table.rows) |->
                     [col \in columns |-> IF col = <<"D","E","S","C","R","I","P","T","I","O","N","_","R","A","W">>
                                          THEN str_split(table.rows[k][<<"D","E","S","C","R","I","P","T","I","O","N">>])
                                          ELSE table.rows[k][col]]]]

\* lines 449-457
new_name(col) ==
    CASE col = <<"U","I","D">> -> <<"i","d">>
      [] col = <<"D","T","E","N","D">> -> <<"e","v","e","n","t","_","e","n","d">>
      [] col = <<"D","T","S","T","A","R","T">> -> <<"e","v","e","n","t","_","s","t","a","r","t">>
      [] col = <<"S","U","M","M","A","R","Y">> -> <<"e","v","e","n","t","_","t","i","t","l","e">>
      [] col = <<"C","R","E","A","T","E","D">> -> <<"c","r","e","a","t","e","d">>
      [] col = <<"D","E","S","C","R","I","P","T","I","O","N","_","R","A","W">> -> <<"e","v","e","n","t","_","d","e","s","c","_","l","i","s","t">>
      [] col = <<"D","E","S","C","R","I","P","T","I","O","N">> -> <<"e","v","e","n","t","_","d","e","s","c">>
      [] OTHER -> col

rename(table) ==
    LET columns == {new_name(col) : col \in table.columns}
        old(name) == CHOOSE col \in table.columns : new_name(col) = name
    IN  [columns |-> columns,
         order |-> [k \in 1..Len(table.order) |-> new_name(table.order[k])],
         rows |-> [k \in 1..Len(table.rows) |-> [name \in columns |-> table.rows[k][old(name)]]]]

\* lines 460-464: the thirteen new columns, in the order the values are assigned to
new_columns ==
    <<<<"e","v","e","n","t","_","c","a","t","e","g","o","r","y">>, <<"e","v","e","n","t","_","d","e","s","c","r","i","p","t","i","o","n">>, <<"o","r","g","a","n","i","s","e","r">>, <<"o","r","g","a","n","i","s","e","r","_","d","e","t","a","i","l">>,
      <<"p","a","r","t","i","c","i","p","a","n","t","_","c","o","u","n","t">>, <<"e","q","u","i","p">>, <<"e","q","u","i","p","_","v","r">>, <<"e","q","u","i","p","_","e","y","e","t","r","a","c","k","i","n","g">>,
      <<"e","q","u","i","p","_","c","l","e","v","e","r","t","o","u","c","h">>, <<"e","q","u","i","p","_","d","t">>, <<"e","q","u","i","p","_","m","o","n","i","t","o","r">>, <<"c","a","t","e","r","i","n","g">>, <<"n","o","t","e","s">>>>

position(seq, x) == CHOOSE k \in 1..Len(seq) : seq[k] = x
Range(seq) == {seq[k] : k \in 1..Len(seq)}

assign_new_columns(table, series) ==
    LET columns == table.columns \cup Range(new_columns)
    IN  [columns |-> columns,
         order |-> table.order \o new_columns,
         rows |-> [k \in 1..Len(table.rows) |->
                     [col \in columns |-> IF col \in Range(new_columns)
                                          THEN series[k][position(new_columns, col)]
                                          ELSE table.rows[k][col]]]]

\* lines 467-471
new_column_layout ==
    <<<<"i","d">>, <<"c","r","e","a","t","e","d">>, <<"e","v","e","n","t","_","t","i","t","l","e">>, <<"e","v","e","n","t","_","s","t","a","r","t">>, <<"e","v","e","n","t","_","e","n","d">>, <<"e","v","e","n","t","_","c","a","t","e","g","o","r","y">>,
      <<"e","v","e","n","t","_","d","e","s","c","r","i","p","t","i","o","n">>, <<"e","v","e","n","t","_","d","e","s","c","_","l","i","s","t">>, <<"e","v","e","n","t","_","d","e","s","c">>, <<"o","r","g","a","n","i","s","e","r">>,
      <<"o","r","g","a","n","i","s","e","r","_","d","e","t","a","i","l">>, <<"p","a","r","t","i","c","i","p","a","n","t","_","c","o","u","n","t">>, <<"e","q","u","i","p">>, <<"e","q","u","i","p","_","c","l","e","v","e","r","t","o","u","c","h">>,
      <<"e","q","u","i","p","_","d","t">>, <<"e","q","u","i","p","_","e","y","e","t","r","a","c","k","i","n","g">>, <<"e","q","u","i","p","_","m","o","n","i","t","o","r">>, <<"e","q","u","i","p","_","v","r">>, <<"c","a","t","e","r","i","n","g">>,
      <<"n","o","t","e","s">>>>

\* the layout's columns in the order the table lists them
filter_in_table_order(table) ==
    LET columns == restrict(table.order, Range(new_column_layout))
    IN  [columns |-> columns,
         rows |-> [k \in 1..Len(table.rows) |-> [col \in Range(columns) |-> table.rows[k][col]]]]

\* every column of the table, in the order the table lists them
filter_none(table) ==
    [columns |-> table.order,
     rows |-> [k \in 1..Len(table.rows) |-> [col \in Range(table.order) |-> table.rows[k][col]]]]

\* DataFrame.filter(items): the items that are columns, in the order of items
filter(table) ==
    LET columns == SelectSeq(new_column_layout, LAMBDA col : col \in table.columns)
    IN  [columns |-> columns,
         rows |-> [k \in 1..Len(table.rows) |-> [col \in Range(columns) |-> table.rows[k][col]]]]

\* line 485: fillna(0), then the value as a Python int
filled_int(value) == IF value = None THEN 0 ELSE int(value)

\* astype('int16') of a value outside the 16 bits: two's complement wrap-around
Int16Max == 32767
int16(n) == ((n + 32768) % 65536) - 32768

\* line 487: pd.to_datetime(errors='coerce') on the compact form the serializer
\* writes (YYYYMMDDTHHMMSS, with or without Z); anything else is NaT
NaT == <<"NaT">>
to_datetime(value) ==
    IF value = None THEN NaT
    ELSE LET digits == SelectSeq(value, LAMBDA c : c \in DigitSet)
             well_formed == /\ Len(value) \in {15, 16}
                            /\ value[9] = "T"
                            /\ Len(digits) = 14
                            /\ Len(value) = 16 => value[16] = "Z"
         IN  IF well_formed THEN <<"Timestamp">> \o digits ELSE NaT

date_columns == {<<"c","r","e","a","t","e","d">>, <<"e","v","e","n","t","_","s","t","a","r","t">>, <<"e","v","e","n","t","_","e","n","d">>}

\* lines 481-490 on a table whose participant_count fits: the int and date columns
\* are converted, the bool columns are left as they are
convert(table, wrap) ==
    [columns |-> table.columns,
     rows |-> [k \in 1..Len(table.rows) |->
                 [col \in Range(table.columns) |->
                     IF col = <<"p","a","r","t","i","c","i","p","a","n","t","_","c","o","u","n","t">>
                     THEN (IF wrap THEN int16(filled_int(table.rows[k][col]))
                                   ELSE filled_int(table.rows[k][col]))
                     ELSE IF col \in date_columns
                     THEN to_datetime(table.rows[k][col])
                     ELSE table.rows[k][col]]]]

overflows(table) ==
    /\ <<"p","a","r","t","i","c","i","p","a","n","t","_","c","o","u","n","t">> \in Range(table.columns)
    /\ \E k \in 1..Len(table.rows) : filled_int(table.rows[k][<<"p","a","r","t","i","c","i","p","a","n","t","_","c","o","u","n","t">>]) > Int16Max

-----------------------------------------------------------------------------
(* The inputs.  Spec runs the pipeline on the calendars of at most MaxEvents  *)
(* events whose descriptions hold at most MaxParas paragraphs in all, each    *)
(* paragraph one of TablePool.  SpecDescription runs it on the calendars of   *)
(* one event whose description holds at most MaxParas paragraphs, each one of *)
(* ParagraphPool.                                                             *)

ParagraphPool == <<
    <<"K","a","t","e","g","o","r","i","e",":"," ","W","o","r","k","s","h","o","p",","," ","E","i","n","f","ü","h","r","u","n","g"," ","V","R">>,
    <<"K","a","t","e","g","o","r","i","e",":"," ","I","n","t","e","r","n","e"," ","V","e","r","a","n","s","t","a","l","t","u","n","g">>,
    <<"K","a","t","e","g","o","r","i","e",":","W","o","r","k","s","h","o","p">>,
    <<"K","a","t","e","g","o","r","i","e",":"," ","U","B"," ","i","n","t","e","r","n"," ","S","e","m","i","n","a","r",","," ","x">>,
    <<"V","e","r","a","n","s","t","a","l","t","e","r",":"," ","U","B",":"," ","U","n","i","v","e","r","s","i","t","ä","t","s","b","i","b","l","i","o","t","h","e","k">>,
    <<"V","e","r","a","n","s","t","a","l","t","e","r",":"," ","U","n","i"," ","M","a","n","n","h","e","i","m">>,
    <<"V","e","r","a","n","s","t","a","l","t","e","r",":"," ","U","n","i",":"," ","S","o","W","i">>,
    <<"V","e","r","a","n","s","t","a","l","t","e","r",":"," ","U","B"," ","U","n","i",":"," ","P","o","W","i"," ","S","p","o","r","t">>,
    <<"T","e","i","l","n","e","h","m","e","r",":"," ","1","0","-","2","0">>,
    <<"T","e","i","l","n","e","h","m","e","r",":"," ","c","a","."," ","1","5">>,
    <<"T","e","i","l","n","e","h","m","e","r",":">>,
    <<"T","e","i","l","n","e","h","m","e","r",":"," ","1","0","-">>,
    <<"T","e","i","l","n","e","h","m","e","r",":"," ","4","0","0","0","0">>,
    <<"T","e","c","h","n","i","k",":"," ","V","R","-","B","r","i","l","l","e",","," ","C","l","e","v","e","r","t","o","u","c","h">>,
    <<"T","e","c","h","n","i","k",":">>,
    <<"T","e","c","h","n","i","k",":"," ","B","e","a","m","e","r">>,
    <<"T","e","c","h","n","i","k",":"," ","D","e","s","i","g","n"," ","T","h","i","n","k","i","n","g">>,
    <<"C","a","t","e","r","i","n","g",":"," ","j","a">>,
    <<"C","a","t","e","r","i","n","g",":"," ","n","e","i","n">>,
    <<"A","n","m","e","r","k","u","n","g",":"," ","x">>,
    <<"R","a","u","m"," ","1">> >>

\* paragraphs with and without a space after the label
NoSpacePool == <<
    <<"K","a","t","e","g","o","r","i","e",":","W","o","r","k","s","h","o","p">>,
    <<"K","a","t","e","g","o","r","i","e",":"," ","W","o","r","k","s","h","o","p",","," ","E","i","n","f","ü","h","r","u","n","g"," ","V","R">>,
    <<"V","e","r","a","n","s","t","a","l","t","e","r",":","U","B",":","x">>,
    <<"V","e","r","a","n","s","t","a","l","t","e","r",":"," ","U","B",":"," ","U","n","i","v","e","r","s","i","t","ä","t","s","b","i","b","l","i","o","t","h","e","k">>,
    <<"T","e","i","l","n","e","h","m","e","r",":","2","0">>,
    <<"T","e","i","l","n","e","h","m","e","r",":","2","0"," ","P","e","r","s","o","n","e","n">>,
    <<"T","e","i","l","n","e","h","m","e","r",":"," ","4","0","0","0","0">>,
    <<"T","e","c","h","n","i","k",":"," ","B","e","a","m","e","r">>,
    <<"C","a","t","e","r","i","n","g",":","j","a">>,
    <<"C","a","t","e","r","i","n","g",":"," ","j","a">>,
    <<"A","n","m","e","r","k","u","n","g",":","x">>,
    <<"A","n","m","e","r","k","u","n","g",":"," ","x">>,
    <<"R","a","u","m">> >>

TablePool == <<
    <<"K","a","t","e","g","o","r","i","e",":"," ","W","o","r","k","s","h","o","p",","," ","E","i","n","f","ü","h","r","u","n","g"," ","V","R">>,
    <<"V","e","r","a","n","s","t","a","l","t","e","r",":"," ","U","B",":"," ","U","n","i","v","e","r","s","i","t","ä","t","s","b","i","b","l","i","o","t","h","e","k">>,
    <<"T","e","i","l","n","e","h","m","e","r",":"," ","1","0","-","2","0">>,
    <<"T","e","i","l","n","e","h","m","e","r",":"," ","1","0","-">>,
    <<"T","e","i","l","n","e","h","m","e","r",":"," ","4","0","0","0","0">>,
    <<"T","e","c","h","n","i","k",":"," ","V","R","-","B","r","i","l","l","e",","," ","C","l","e","v","e","r","t","o","u","c","h">>,
    <<"C","a","t","e","r","i","n","g",":"," ","j","a">>,
    <<"A","n","m","e","r","k","u","n","g",":"," ","x">>,
    <<"R","a","u","m"," ","1">> >>

\* s.join(parts)
RECURSIVE join(_, _)
join(parts, sep) ==
    IF Len(parts) = 0 THEN <<>>
    ELSE IF Len(parts) = 1 THEN parts[1]
    ELSE parts[1] \o sep \o join(Tail(parts), sep)

\* the text escaping of the serializer: a comma is written \,
escape(s) ==
    concat(tuple([k \in 1..Len(s) |-> IF s[k] = "," THEN <<"\\", ",">> ELSE <<s[k]>>]), 1, Len(s))

\* event.serialize().split('\n') of the k-th event: its lines, each ending in \r;
\* the paragraphs of the description are joined by the two characters \n
serialize(k, paragraphs) ==
    <<<<"B","E","G","I","N",":","V","E","V","E","N","T">> \o <<"\r">>>>
    \o (IF Len(paragraphs) = 0 THEN <<>>
        ELSE <<<<"D","E","S","C","R","I","P","T","I","O","N",":">>
               \o join([m \in 1..Len(paragraphs) |-> escape(paragraphs[m])], <<"\\", "n">>)
               \o <<"\r">>>>)
    \o <<<<"U","I","D",":">> \o <<Digits[k + 1]>> \o <<"\r">>, <<"E","N","D",":","V","E","V","E","N","T">> \o <<"\r">>>>

\* the sum of the first n entries of a sequence of numbers
RECURSIVE sum(_, _)
sum(lens, n) == IF n = 0 THEN 0 ELSE sum(lens, n - 1) + lens[n]

\* the calendar whose k-th event has lens[k] paragraphs, taken in turn from the
\* paragraphs of the pool that picks names
calendar(lens, picks, pool) ==
    [k \in 1..Len(lens) |->
        serialize(k, [m \in 1..lens[k] |-> pool[picks[sum(lens, k - 1) + m]]])]

\* the calendars of n events, for an n of sizes, with at most paras paragraphs of
\* the pool
CalendarsUpTo(sizes, pool, paras) ==
    UNION {UNION {{calendar(lens, picks, pool) :
                      picks \in [1..sum(lens, n) -> 1..Len(pool)]} :
                  lens \in {ls \in [1..n -> 0..paras] : sum(ls, n) <= paras}} :
           n \in sizes}

Calendars(sizes, pool) == CalendarsUpTo(sizes, pool, MaxParas)

-----------------------------------------------------------------------------
(* The pipeline *)

\* the field names the serialized events hold, in the order of their first line
Keys == <<<<"B","E","G","I","N">>, <<"D","E","S","C","R","I","P","T","I","O","N">>, <<"U","I","D">>, <<"E","N","D">>>>

\* the orders a set of these names can iterate in: str hashes differ from one
\* interpreter run to the next
HashOrders == {order \in [1..Len(Keys) -> Range(Keys)] : Range(order) = Range(Keys)}

\* one paragraph of each label, and one without a label
LabelPool == <<
    <<"K","a","t","e","g","o","r","i","e",":"," ","W","o","r","k","s","h","o","p",","," ","E","i","n","f","ü","h","r","u","n","g"," ","V","R">>,
    <<"V","e","r","a","n","s","t","a","l","t","e","r",":"," ","U","B",":"," ","U","n","i","v","e","r","s","i","t","ä","t","s","b","i","b","l","i","o","t","h","e","k">>,
    <<"T","e","i","l","n","e","h","m","e","r",":"," ","4","0","0","0","0">>,
    <<"T","e","c","h","n","i","k",":"," ","V","R","-","B","r","i","l","l","e",","," ","C","l","e","v","e","r","t","o","u","c","h">>,
    <<"C","a","t","e","r","i","n","g",":"," ","j","a">>,
    <<"A","n","m","e","r","k","u","n","g",":"," ","x">>,
    <<"R","a","u","m"," ","1">> >>

\* lines an event can hold besides those of serialize above: a second
\* DESCRIPTION, a date, a field that is in no list of the code, and the
\* continuation of a folded line, which has no colon
LinePool == <<
    <<"B","E","G","I","N",":","V","E","V","E","N","T">> \o <<"\r">>,
    <<"D","E","S","C","R","I","P","T","I","O","N",":","T","e","i","l","n","e","h","m","e","r",":"," ","4","0","0","0","0">> \o <<"\r">>,
    <<"D","E","S","C","R","I","P","T","I","O","N",":","C","a","t","e","r","i","n","g",":"," ","j","a">> \o <<"\r">>,
    <<"U","I","D",":","1">> \o <<"\r">>,
    <<"D","T","S","T","A","R","T",":","2","0","2","4","0","1","0","1","T","1","0","0","0","0","0","Z">> \o <<"\r">>,
    <<"L","O","C","A","T","I","O","N",":","L","a","b">> \o <<"\r">>,
    <<" ","R","a","u","m"," ","1">> \o <<"\r">> >>

\* the field names of these lines
LineKeys == <<<<"B","E","G","I","N">>, <<"D","E","S","C","R","I","P","T","I","O","N">>, <<"U","I","D">>, <<"D","T","S","T","A","R","T">>, <<"L","O","C","A","T","I","O","N">>>>

\* the events of at most MaxLines lines of the pool
Events ==
    UNION {{[m \in 1..n |-> LinePool[picks[m]]] : picks \in [1..n -> 1..Len(LinePool)]} :
           n \in 0..MaxLines}

\* the state before the pipeline runs on calendar
Start(calendar_in, verbose_in, order_in) ==
    /\ cal = calendar_in
    /\ verbose = verbose_in
    /\ hash_order = order_in
    /\ pc = "start"
    /\ df = NoTable
    /\ temp_df_processed = NoTable
    /\ row = 0
    /\ item = 0
    /\ locals = InitLocals
    /\ applied = <<>>
    /\ out = NoTable
    /\ exc = "none"

\* app.py calls both functions with verbose=False
Init == \E calendar_in \in Calendars(0..MaxEvents, TablePool) : Start(calendar_in, FALSE, Keys)

InitDescription == \E calendar_in \in Calendars({1}, ParagraphPool) : Start(calendar_in, FALSE, Keys)

\* at most one event, under every iteration order without verbose, and with
\* verbose under one
InitEnvironment ==
    \E calendar_in \in CalendarsUpTo({0, 1}, LabelPool, MaxOrderParas) :
        \/ \E order_in \in HashOrders : Start(calendar_in, FALSE, order_in)
        \/ Start(calendar_in, TRUE, Keys)

\* one event whose paragraphs are drawn from NoSpacePool
InitNoSpace == \E calendar_in \in Calendars({1}, NoSpacePool) : Start(calendar_in, FALSE, Keys)

\* one event of arbitrary lines
InitParse == \E event \in Events : Start(<<event>>, FALSE, LineKeys)

\* print_verbose, lines 77-97: max_length is bound inside the loop over the keys
\* of calendar_dict (line 90) and read after it (line 93), an UnboundLocalError
\* when there is no key
print_verbose_raises(table) == table.columns = {}

\* create_dataframe_from_calendar(cal, verbose)
CreateDataframe ==
    /\ pc = "start"
    /\ LET table == create_dataframe_from_calendar(cal, hash_order)
       IN  IF verbose /\ print_verbose_raises(table)
           THEN df' = df /\ pc' = "raised" /\ exc' = "UnboundLocalError"
           ELSE df' = table /\ pc' = "created" /\ exc' = exc
    /\ UNCHANGED <<cal, verbose, hash_order, temp_df_processed, row, item, locals, applied, out>>

\* the same steps on the table passed in itself, without the copy of line 431
CleanPrepare_in_place ==
    /\ pc = "created"
    /\ LET dropped == drop_columns(dropna(df))
       IN  IF <<"D","E","S","C","R","I","P","T","I","O","N">> \in dropped.columns
           THEN /\ temp_df_processed' = rename(add_description_raw(dropped))
                /\ df' = temp_df_processed'
                /\ pc' = "apply"
                /\ row' = 1
                /\ item' = 1
                /\ exc' = exc
           ELSE /\ temp_df_processed' = dropped
                /\ df' = dropped
                /\ pc' = "raised"
                /\ exc' = "KeyError"
                /\ UNCHANGED <<row, item>>
    /\ UNCHANGED <<cal, verbose, hash_order, locals, applied, out>>

\* clean_calendar_dataframe(df), lines 430-457: up to the call of .apply();
\* line 446 reads the column DESCRIPTION, a KeyError when it is not there
CleanPrepare ==
    /\ pc = "created"
    /\ LET dropped == drop_columns(dropna(df))
       IN  IF <<"D","E","S","C","R","I","P","T","I","O","N">> \in dropped.columns
           THEN /\ temp_df_processed' = rename(add_description_raw(dropped))
                /\ pc' = "apply"
                /\ row' = 1
                /\ item' = 1
                /\ exc' = exc
           ELSE /\ temp_df_processed' = dropped
                /\ pc' = "raised"
                /\ exc' = "KeyError"
                /\ UNCHANGED <<row, item>>
    /\ UNCHANGED <<cal, verbose, hash_order, df, locals, applied, out>>

\* the argument of the running process_description
series == temp_df_processed.rows[row][<<"e","v","e","n","t","_","d","e","s","c","_","l","i","s","t">>]

InCall == pc = "apply" /\ row <= Len(temp_df_processed.rows)
InLoop == InCall /\ series # NoList /\ item <= Len(series)

\* one turn of the loop of process_description, lines 295-392, on a paragraph
\* with label k (0: none of the labels)
ProcessItem(k) ==
    /\ InLoop
    /\ Label(series[item]) = k
    /\ LET done == process_item(locals, series[item])
       IN  /\ locals' = done.locals
           /\ IF done.exc = "none"
              THEN item' = item + 1 /\ pc' = pc /\ exc' = exc
              ELSE item' = item /\ pc' = "raised" /\ exc' = done.exc
    /\ UNCHANGED <<cal, verbose, hash_order, df, temp_df_processed, row, applied, out>>

ProcessKategorie == ProcessItem(1)
ProcessVeranstalter == ProcessItem(2)
ProcessTeilnehmer == ProcessItem(3)
ProcessTechnik == ProcessItem(4)
ProcessCatering == ProcessItem(5)
ProcessAnmerkung == ProcessItem(6)
ProcessOther == ProcessItem(0)

\* process_description returns (line 394) and .apply() goes to the next row,
\* where it calls process_description again (lines 164-177)
ReturnSeries ==
    /\ InCall
    /\ series = NoList \/ item > Len(series)
    /\ applied' = Append(applied, Series(locals))
    /\ row' = row + 1
    /\ item' = 1
    /\ locals' = InitLocals
    /\ UNCHANGED <<cal, verbose, hash_order, df, temp_df_processed, pc, out, exc>>

\* the table before the conversion of line 485
Filtered == filter(assign_new_columns(temp_df_processed, applied))

AfterApply == pc = "apply" /\ row > Len(temp_df_processed.rows)

\* lines 460-492, every participant_count within 16 bits
Finish ==
    /\ AfterApply
    /\ ~overflows(Filtered)
    /\ out' = convert(Filtered, FALSE)
    /\ pc' = "done"
    /\ UNCHANGED <<cal, verbose, hash_order, df, temp_df_processed, row, item, locals, applied, exc>>

\* lines 460-492, a participant_count above 32767: astype('int16') wraps around
\* where numpy converts silently
FinishWrapped ==
    /\ AfterApply
    /\ overflows(Filtered)
    /\ out' = convert(Filtered, TRUE)
    /\ pc' = "done"
    /\ UNCHANGED <<cal, verbose, hash_order, df, temp_df_processed, row, item, locals, applied, exc>>

\* and raises OverflowError where numpy checks the range
FinishOverflow ==
    /\ AfterApply
    /\ overflows(Filtered)
    /\ pc' = "raised"
    /\ exc' = "OverflowError"
    /\ UNCHANGED <<cal, verbose, hash_order, df, temp_df_processed, row, item, locals, applied, out>>

Next ==
    \/ CreateDataframe
    \/ CleanPrepare
    \/ ProcessKategorie
    \/ ProcessVeranstalter
    \/ ProcessTeilnehmer
    \/ ProcessTechnik
    \/ ProcessCatering
    \/ ProcessAnmerkung
    \/ ProcessOther
    \/ ReturnSeries
    \/ Finish
    \/ FinishWrapped
    \/ FinishOverflow

Spec == Init /\ [][Next]_vars

SpecDescription == InitDescription /\ [][Next]_vars

SpecEnvironment == InitEnvironment /\ [][Next]_vars

SpecParse == InitParse /\ [][Next]_vars

SpecNoSpace == InitNoSpace /\ [][Next]_vars

-----------------------------------------------------------------------------
(* What the claims speak of *)

Returned == pc = "done"
Failed == pc = "raised"
Ended == Returned \/ Failed

\* process_description on a whole list of paragraphs: the loop of lines 295-392
\* from the initial locals, and the returned pd.Series unless a paragraph raised
RECURSIVE run_items(_, _)
run_items(l, paragraphs) ==
    IF Len(paragraphs) = 0 THEN Completed(l)
    ELSE LET done == process_item(l, paragraphs[1])
         IN  IF done.exc = "none" THEN run_items(done.locals, Tail(paragraphs)) ELSE done

process_description(paragraphs) ==
    LET done == run_items(InitLocals, paragraphs)
    IN  [series |-> Series(done.locals), exc |-> done.exc]

\* the paragraphs of row k of the working table
paragraphs_of(k) == temp_df_processed.rows[k][<<"e","v","e","n","t","_","d","e","s","c","_","l","i","s","t">>]

\* process_description raised at the paragraph it is at
RaisedInItem == Failed /\ row >= 1 /\ exc \in {"AttributeError", "UnboundLocalError"}

\* a paragraph with label k was processed in the step that led here, and it is p
JustProcessed(k, p) ==
    /\ InCall
    /\ series # NoList
    /\ item > 1
    /\ item - 1 <= Len(series)
    /\ series[item - 1] = p
    /\ Label(p) = k

\* a paragraph with label k raised in the step that led here
JustRaised(k) == RaisedInItem /\ Label(series[item]) = k

\* the cell of column col in row k of the returned table
cell(k, col) == out.rows[k][col]

-----------------------------------------------------------------------------
(* C1 *)

\* C1: for every input of N events the two functions return a table of exactly N
\* rows, row i derived from input event i (its id is the UID of event i).
C1_RowCount ==
    Ended => /\ Returned
             /\ Len(out.rows) = Len(cal)
             /\ \A k \in 1..Len(cal) : cell(k, <<"i","d">>) = <<Digits[k + 1]>>

-----------------------------------------------------------------------------
(* C2 *)

\* C2: there are no fatal errors; on zero events the two functions return an empty
\* table instead of raising.
C2_EmptyInput ==
    (Len(cal) = 0 /\ Ended) => (Returned /\ out.rows = <<>>)

-----------------------------------------------------------------------------
(* C3 *)

\* the raw columns that rename to a name of the layout
layout_sources == {<<"U","I","D">>, <<"D","T","E","N","D">>, <<"D","T","S","T","A","R","T">>, <<"S","U","M","M","A","R","Y">>, <<"C","R","E","A","T","E","D">>, <<"D","E","S","C","R","I","P","T","I","O","N">>}

\* C3: a layout column absent after the sparse-column drop and the denylist drop is
\* omitted from the final table and never causes an error, DESCRIPTION included.
C3_AbsentColumnOmitted ==
    \A col \in layout_sources :
        (Ended /\ col \notin drop_columns(dropna(df)).columns)
            => /\ exc # "KeyError"
               /\ Returned => new_name(col) \notin Range(out.columns)

-----------------------------------------------------------------------------
(* C4 *)

Booleans == {True, False}

\* equip and the five sub-flags are all unset, or all set and equip is their OR
equip_is_or(equip, sub_flags) ==
    \/ equip = None /\ \A k \in 1..5 : sub_flags[k] = None
    \/ /\ equip \in Booleans
       /\ \A k \in 1..5 : sub_flags[k] \in Booleans
       /\ equip = PyBool(\E k \in 1..5 : sub_flags[k] = True)

\* C4: in every record process_description returns, and in every row of the returned
\* table, equip equals the logical OR of equip_vr, equip_eyetracking,
\* equip_clevertouch, equip_monitor and equip_dt: with a Technik paragraph the six
\* are booleans and equip is true iff a sub-flag is; without one the six are all
\* None, and so is their `or`.
C4_EquipIsOr ==
    /\ \A k \in 1..Len(applied) :
          equip_is_or(applied[k][6], <<applied[k][7], applied[k][8], applied[k][9],
                                      applied[k][11], applied[k][10]>>)
    /\ Returned =>
         \A k \in 1..Len(out.rows) :
            equip_is_or(cell(k, <<"e","q","u","i","p">>),
                        <<cell(k, <<"e","q","u","i","p","_","v","r">>), cell(k, <<"e","q","u","i","p","_","e","y","e","t","r","a","c","k","i","n","g">>),
                          cell(k, <<"e","q","u","i","p","_","c","l","e","v","e","r","t","o","u","c","h">>), cell(k, <<"e","q","u","i","p","_","m","o","n","i","t","o","r">>),
                          cell(k, <<"e","q","u","i","p","_","d","t">>)>>)

\* a returned table whose row has a Technik paragraph naming two devices
C4_Witness ==
    /\ Returned
    /\ Len(out.rows) = 1
    /\ cell(1, <<"e","q","u","i","p">>) = True
    /\ cell(1, <<"e","q","u","i","p","_","v","r">>) = True
    /\ cell(1, <<"e","q","u","i","p","_","c","l","e","v","e","r","t","o","u","c","h">>) = True
    /\ cell(1, <<"e","q","u","i","p","_","d","t">>) = False

-----------------------------------------------------------------------------
(* C5 *)

\* C5: every participant_count of the returned table is >= 0, whatever digit run the
\* Teilnehmer rule extracted, and it is 0 for a row whose record has none.
C5_NonNegative ==
    Returned =>
        \A k \in 1..Len(out.rows) :
            /\ cell(k, <<"p","a","r","t","i","c","i","p","a","n","t","_","c","o","u","n","t">>) >= 0
            /\ applied[k][5] = None => cell(k, <<"p","a","r","t","i","c","i","p","a","n","t","_","c","o","u","n","t">>) = 0

-----------------------------------------------------------------------------
(* C6 *)

occurrences(paragraphs, k) == {m \in 1..Len(paragraphs) : Label(paragraphs[m]) = k}

\* the list without the occurrences of label k before its last one
RECURSIVE without_earlier(_, _)
without_earlier(paragraphs, k) ==
    IF Len(paragraphs) = 0 THEN <<>>
    ELSE IF Label(paragraphs[1]) = k /\ occurrences(Tail(paragraphs), k) # {}
         THEN without_earlier(Tail(paragraphs), k)
         ELSE <<paragraphs[1]>> \o without_earlier(Tail(paragraphs), k)

\* C6: when a label occurs more than once in a list, the record is the one the same
\* list gives with the earlier occurrences of that label removed.
C6_LastWriteWins ==
    \A k \in 1..Len(applied) :
        paragraphs_of(k) # NoList =>
            \A lab \in 1..Len(Labels) :
                Cardinality(occurrences(paragraphs_of(k), lab)) > 1 =>
                    LET alone == process_description(without_earlier(paragraphs_of(k), lab))
                    IN  alone.exc = "none" /\ applied[k] = alone.series

-----------------------------------------------------------------------------
(* C7 *)

\* the participant_count the claim gives for the text after the label
claimed_count(text) ==
    IF text = None THEN None
    ELSE IF contains(text, <<"-">>)
    THEN match_digits(strip(split_once(text, {"-"})[2]))
    ELSE search_digits(text)

\* C7: a Teilnehmer paragraph never raises; participant_count becomes the leading
\* digits after the hyphen if the text has one, else its first run of digits, and is
\* left unset when there is no such run.
C7_Teilnehmer ==
    /\ ~JustRaised(3)
    /\ \A p \in Range(ParagraphPool) :
          JustProcessed(3, p) => locals.participant_count = claimed_count(split_item(p))

-----------------------------------------------------------------------------
(* C8 *)

\* C8: for a Kategorie paragraph whose text holds a colon or whitespace, the text is
\* split once on the first colon or comma; event_category becomes the canonicalized,
\* trimmed first part whether or not there is a second part, event_description the
\* trimmed second part when there is one.
C8_Kategorie ==
    \A p \in Range(ParagraphPool) :
        (JustProcessed(1, p) /\ Truthy(split_item(p)) /\ has_colon_or_space(split_item(p))) =>
            LET parts == split_once(split_item(p), {":", ","})
            IN  /\ locals.event_category = clean_event_category(strip(parts[1]))
                /\ Len(parts) > 1 => locals.event_description = strip(parts[2])

-----------------------------------------------------------------------------
(* C9 *)

\* C9: for a Veranstalter paragraph whose text holds a colon, organiser is the
\* canonicalized part before the first colon and organiser_detail the canonicalized
\* part after it; when the text holds no colon, organiser_detail equals organiser
\* after the paragraph, whatever was processed before.
C9_Veranstalter ==
    \A p \in Range(ParagraphPool) :
        (JustProcessed(2, p) /\ Truthy(split_item(p))) =>
            LET parts == split_once(split_item(p), {":"})
            IN  IF Len(parts) > 1
                THEN /\ locals.organiser = clean_organiser(strip(parts[1]))
                     /\ locals.organiser_detail = clean_organiser_detail(strip(parts[2]))
                ELSE locals.organiser_detail = locals.organiser

-----------------------------------------------------------------------------
(* C10 *)

\* the trimmed items of the text after the label
items_of(text) == LET parts == split(text, ",") IN {strip(parts[k]) : k \in 1..Len(parts)}

\* some item contains, case-insensitively, a keyword of group g
group_matches(text, g) ==
    \E an_item \in items_of(text) :
        \E k \in 1..Len(EquipmentPatterns[g].keys) :
            contains(lower(an_item), EquipmentPatterns[g].keys[k])

\* C10: a Technik paragraph with non-empty text is processed without error, and each
\* of the five sub-flags is true iff some trimmed item of the text contains a keyword
\* of that flag's own group, false otherwise; equip is true iff some sub-flag is.
C10_Technik ==
    \A p \in Range(ParagraphPool) :
        (Label(p) = 4 /\ Truthy(split_item(p))) =>
            /\ ~(JustRaised(4) /\ series[item] = p)
            /\ JustProcessed(4, p) =>
                 LET text == split_item(p)
                 IN  /\ locals.equipment_vr = PyBool(group_matches(text, 1))
                     /\ locals.equipment_eye_tracking = PyBool(group_matches(text, 2))
                     /\ locals.equipment_clevertouch = PyBool(group_matches(text, 3))
                     /\ locals.equipment_large_monitor = PyBool(group_matches(text, 4))
                     /\ locals.equipment_design_thinking = PyBool(group_matches(text, 5))
                     /\ locals.equipment = PyBool(\E g \in 1..5 : group_matches(text, g))

\* 'Technik: VR-Brille, Clevertouch' was processed: equip, equip_vr and
\* equip_clevertouch are true, equip_eyetracking is false
C10_Witness ==
    /\ JustProcessed(4, <<"T","e","c","h","n","i","k",":"," ","V","R","-","B","r","i","l","l","e",","," ","C","l","e","v","e","r","t","o","u","c","h">>)
    /\ locals.equipment = True
    /\ locals.equipment_vr = True
    /\ locals.equipment_clevertouch = True
    /\ locals.equipment_eye_tracking = False

-----------------------------------------------------------------------------
(* C11 *)

\* the five sub-flags and equip of a returned record
flags_of(record) == {record[m] : m \in 6..11}

\* the six equipment cells of row k of the returned table
equip_cells(k) ==
    {cell(k, col) : col \in {<<"e","q","u","i","p">>, <<"e","q","u","i","p","_","v","r">>, <<"e","q","u","i","p","_","e","y","e","t","r","a","c","k","i","n","g">>,
                            <<"e","q","u","i","p","_","c","l","e","v","e","r","t","o","u","c","h">>, <<"e","q","u","i","p","_","m","o","n","i","t","o","r">>, <<"e","q","u","i","p","_","d","t">>}}

\* C11: for a list of paragraphs without a Technik paragraph (an absent description
\* included) equip and the five sub-flags of the record are false, not unset, and
\* so are the cells of that row in the returned table.
C11_NoTechnikFalse ==
    /\ \A k \in 1..Len(applied) :
          occurrences(paragraphs_of(k), 4) = {} => flags_of(applied[k]) = {False}
    /\ Returned =>
          \A k \in 1..Len(out.rows) :
              occurrences(paragraphs_of(k), 4) = {} => equip_cells(k) = {False}

-----------------------------------------------------------------------------
(* C12 *)

\* the text after the label of the last Catering paragraph holds "ja"
last_catering_has_ja(paragraphs) ==
    LET occ == occurrences(paragraphs, 5)
        last == CHOOSE m \in occ : \A n \in occ : n <= m
        text == split_item(paragraphs[last])
    IN  occ # {} /\ text # None /\ contains(text, <<"j","a">>)

\* C12: catering of the record is true iff the text of the last Catering paragraph
\* contains "ja", and false otherwise, also when the list has no Catering paragraph.
C12_Catering ==
    \A k \in 1..Len(applied) :
        applied[k][12] = PyBool(last_catering_has_ja(paragraphs_of(k)))

-----------------------------------------------------------------------------
(* C13 *)

\* the two functions one after the other, as app.py calls them: the set of the
\* ways the run can end, each the returned table (NoTable when none is) and the
\* exception
clean_df(events, verbose_in, key_order) ==
    LET table == create_dataframe_from_calendar(events, key_order)
        dropped == drop_columns(dropna(table))
        working == rename(add_description_raw(dropped))
        records == tuple([k \in 1..Len(working.rows) |->
                      LET paragraphs == working.rows[k][<<"e","v","e","n","t","_","d","e","s","c","_","l","i","s","t">>]
                      IN  IF paragraphs = NoList
                          THEN [series |-> Series(InitLocals), exc |-> "none"]
                          ELSE process_description(paragraphs)])
        raising == {k \in 1..Len(working.rows) : records[k].exc # "none"}
        first == CHOOSE k \in raising : \A m \in raising : k <= m
        filtered == filter(assign_new_columns(working,
                               [k \in 1..Len(working.rows) |-> records[k].series]))
    IN  IF verbose_in /\ print_verbose_raises(table)
        THEN {[out |-> NoTable, exc |-> "UnboundLocalError"]}
        ELSE IF <<"D","E","S","C","R","I","P","T","I","O","N">> \notin dropped.columns
        THEN {[out |-> NoTable, exc |-> "KeyError"]}
        ELSE IF raising # {}
        THEN {[out |-> NoTable, exc |-> records[first].exc]}
        ELSE IF overflows(filtered)
        THEN {[out |-> convert(filtered, TRUE), exc |-> "none"],
              [out |-> NoTable, exc |-> "OverflowError"]}
        ELSE {[out |-> convert(filtered, FALSE), exc |-> "none"]}

\* how the run ended
outcome == [out |-> out, exc |-> exc]

\* C13: a run ends as a run on the same input under any other iteration order of
\* the set of column names does: the same exception, or the same table with the
\* same columns in the same order and the same values (what astype('int16') does
\* with a count above 32767 is a property of the numpy build, not of the run).
C13_Deterministic ==
    Ended => outcome \in clean_df(cal, verbose, Keys)

\* a table was returned by a run whose raw table lists UID before DESCRIPTION,
\* the reverse of the order of Keys
C13_Witness ==
    /\ Returned
    /\ Len(out.rows) = 1
    /\ hash_order # Keys
    /\ position(df.order, <<"U","I","D">>) < position(df.order, <<"D","E","S","C","R","I","P","T","I","O","N">>)
    /\ out.columns[1] = <<"i","d">>
    /\ <<"e","v","e","n","t","_","d","e","s","c">> \in Range(out.columns)

-----------------------------------------------------------------------------
(* C14 *)

\* create_dataframe_from_calendar raised: no table was built, no row was begun
CreateRaised == Failed /\ row = 0 /\ exc = "UnboundLocalError"

\* C14: the verbose flag never changes the outcome: create_dataframe_from_calendar
\* completes with it as it does without it (it never raises without it), and the
\* run ends as the run without the flag does, with the same table.
C14_VerboseSame ==
    /\ ~CreateRaised
    /\ Ended => outcome \in clean_df(cal, FALSE, hash_order)

-----------------------------------------------------------------------------
(* C15 *)

\* the run gives event k what a run on event k alone gives it: the same columns
\* and the same row, or no table in both
same_as_alone(k) ==
    LET alone == clean_df(<<cal[k]>>, verbose, hash_order)
    IN  IF Returned
        THEN \E o \in alone : /\ o.exc = "none"
                              /\ o.out.columns = out.columns
                              /\ o.out.rows[1] = out.rows[k]
        ELSE \E o \in alone : o.exc # "none"

\* C15: the output row of an event, the columns it has and their values, is a
\* function of that event's own lines: the other events of the input do not
\* change it.
C15_Independent ==
    Ended => \A k \in 1..Len(cal) : same_as_alone(k)

-----------------------------------------------------------------------------
(* C16 *)

\* column col of the raw table is populated in at least 5% of its rows
populated(col) == 100 * non_null(df, col) >= 5 * Len(df.rows)

\* C16: a raw column is dropped by the sparse-column rule iff it is populated in
\* strictly less than 5% of the rows, and a column of the output layout that is
\* populated in 5% of the rows or more is present in the final table.
C16_SparseRule ==
    /\ \A col \in df.columns : col \in dropna(df).columns <=> populated(col)
    /\ \A col \in layout_sources \cap df.columns :
          (Ended /\ populated(col)) =>
              /\ exc # "KeyError"
              /\ Returned => new_name(col) \in Range(out.columns)

-----------------------------------------------------------------------------
(* C17 *)

\* the canonical labels of a table
labels_of(patterns) == {patterns[k].label : k \in 1..Len(patterns)}

\* every canonical label of each table is returned unchanged by the table's
\* function
labels_unchanged ==
    /\ \A L \in labels_of(CategoryPatterns) : clean_event_category(L) = L
    /\ \A L \in labels_of(OrganiserPatterns) : clean_organiser(L) = L
    /\ \A L \in labels_of(OrganiserDetailPatterns) : clean_organiser_detail(L) = L

\* the texts after the labels of the paragraphs the descriptions are made of
pool_texts == {split_item(ParagraphPool[m]) : m \in 1..Len(ParagraphPool)} \ {None}

\* each function applied twice to a text gives what it gives applied once
twice_is_once ==
    \A s \in pool_texts :
        /\ clean_event_category(clean_event_category(s)) = clean_event_category(s)
        /\ clean_organiser(clean_organiser(s)) = clean_organiser(s)
        /\ clean_organiser_detail(clean_organiser_detail(s)) = clean_organiser_detail(s)

\* C17: each of the three canonicalization functions returns a canonical label of
\* its table unchanged, and applied twice to a string gives what it gives applied
\* once; so the values a Kategorie or Veranstalter paragraph was just canonicalized
\* to are left as they are by canonicalizing them again.
C17_Idempotent ==
    /\ labels_unchanged
    /\ twice_is_once
    /\ \A p \in Range(ParagraphPool) :
          /\ (JustProcessed(1, p) /\ Truthy(locals.event_category)) =>
                clean_event_category(locals.event_category) = locals.event_category
          /\ (JustProcessed(2, p) /\ Truthy(locals.organiser)) =>
                clean_organiser(locals.organiser) = locals.organiser
          /\ (JustProcessed(2, p) /\ Truthy(split_item(p)) /\ contains(split_item(p), <<":">>)
                /\ Truthy(locals.organiser_detail)) =>
                clean_organiser_detail(locals.organiser_detail) = locals.organiser_detail

\* a Veranstalter paragraph was canonicalized to the labels 'UB' and
\* 'Institut für Sport', and canonicalizing these once more changes nothing
C17_Witness ==
    /\ JustProcessed(2, <<"V","e","r","a","n","s","t","a","l","t","e","r",":"," ","U","B"," ","U","n","i",":"," ","P","o","W","i"," ","S","p","o","r","t">>)
    /\ locals.organiser = <<"U","B">>
    /\ locals.organiser_detail = <<"I","n","s","t","i","t","u","t"," ","f","ü","r"," ","S","p","o","r","t">>
    /\ clean_organiser(locals.organiser) = <<"U","B">>
    /\ clean_organiser_detail(locals.organiser_detail) = <<"I","n","s","t","i","t","u","t"," ","f","ü","r"," ","S","p","o","r","t">>

-----------------------------------------------------------------------------
(* C18 *)

\* a key of entry k of the table occurs in the lower-cased s
entry_matches(patterns, k, s) ==
    \E key \in Range(patterns[k].keys) : contains(lower(s), key)

\* the label the claim gives: that of the earliest entry, from entry k on, one of
\* whose keys occurs in the lower-cased s; s itself when there is none
RECURSIVE earliest_label(_, _, _)
earliest_label(patterns, k, s) ==
    IF k > Len(patterns) THEN s
    ELSE IF entry_matches(patterns, k, s) THEN patterns[k].label
    ELSE earliest_label(patterns, k + 1, s)

\* on the texts the descriptions are made of, each function returns that label
earliest_on_pool ==
    \A s \in pool_texts :
        /\ clean_event_category(s) = earliest_label(CategoryPatterns, 1, s)
        /\ clean_organiser(s) = earliest_label(OrganiserPatterns, 1, s)
        /\ clean_organiser_detail(s) = earliest_label(OrganiserDetailPatterns, 1, s)

\* C18: each canonicalization function returns the first label, in table order, one
\* of whose keys matches the lower-cased input, and the input unchanged when none
\* does; so a Kategorie paragraph with two parts and a Veranstalter paragraph with a
\* colon leave those labels in the record.
C18_FirstMatch ==
    /\ earliest_on_pool
    /\ \A p \in Range(ParagraphPool) :
          /\ (JustProcessed(1, p) /\ Truthy(split_item(p))
                /\ Len(split_once(split_item(p), {":", ","})) > 1
                /\ Truthy(strip(split_once(split_item(p), {":", ","})[1]))) =>
                locals.event_category =
                    earliest_label(CategoryPatterns, 1,
                                   strip(split_once(split_item(p), {":", ","})[1]))
          /\ (JustProcessed(2, p) /\ Truthy(split_item(p))
                /\ Len(split_once(split_item(p), {":"})) > 1
                /\ Truthy(strip(split_once(split_item(p), {":"})[1]))
                /\ Truthy(strip(split_once(split_item(p), {":"})[2]))) =>
                /\ locals.organiser =
                       earliest_label(OrganiserPatterns, 1,
                                      strip(split_once(split_item(p), {":"})[1]))
                /\ locals.organiser_detail =
                       earliest_label(OrganiserDetailPatterns, 1,
                                      strip(split_once(split_item(p), {":"})[2]))

\* an organiser text holding both 'ub' and 'uni' became 'UB', a detail text holding
\* 'powi' and 'sport' became the label of the earlier entry, 'Institut für Sport',
\* and a text without any key stayed as it was
C18_Witness ==
    /\ JustProcessed(2, <<"V","e","r","a","n","s","t","a","l","t","e","r",":"," ","U","B"," ","U","n","i",":"," ","P","o","W","i"," ","S","p","o","r","t">>)
    /\ locals.organiser = <<"U","B">>
    /\ locals.organiser_detail = <<"I","n","s","t","i","t","u","t"," ","f","ü","r"," ","S","p","o","r","t">>
    /\ clean_event_category(<<"W","o","r","k","s","h","o","p">>) = <<"W","o","r","k","s","h","o","p">>

-----------------------------------------------------------------------------
(* C19 *)

\* the locals the rule of label k may assign (none for k = 0, no label)
governed(k) ==
    CASE k = 1 -> {"event_category", "event_description"}
      [] k = 2 -> {"organiser", "organiser_detail"}
      [] k = 3 -> {"participant_count"}
      [] k = 4 -> {"equipment", "equipment_vr", "equipment_eye_tracking",
                   "equipment_clevertouch", "equipment_large_monitor",
                   "equipment_design_thinking", "equipment_split",
                   "equipment_split_bound"}
      [] k = 5 -> {"catering"}
      [] k = 6 -> {"notes"}
      [] OTHER -> {}

-----------------------------------------------------------------------------
(* C20 *)

\* the cleaned lines of event k, as parse_event is given them
lines_of(k) == clean_event_data(cal[k])

\* the position of the first colon of a line that has one
first_colon(line) ==
    CHOOSE m \in 1..Len(line) : line[m] = ":" /\ \A n \in 1..(m - 1) : line[n] # ":"

name_of(line) == SubSeq(line, 1, first_colon(line) - 1)
value_of(line) == SubSeq(line, first_colon(line) + 1, Len(line))

\* the lines of an event that contain a colon
colon_lines(event) == {m \in 1..Len(event) : ":" \in Range(event[m])}

\* d maps the name of every line with a colon, and nothing else, to the text after
\* the first colon of the last line of that name
is_parse_of(d, event) ==
    /\ DOMAIN d = {name_of(event[m]) : m \in colon_lines(event)}
    /\ \A m \in colon_lines(event) :
          (\A n \in colon_lines(event) : n > m => name_of(event[n]) # name_of(event[m]))
              => d[name_of(event[m])] = value_of(event[m])

\* C20: parse_event maps each line with a colon to (text before the first colon,
\* text after it), lines without a colon contribute nothing, and of the lines of one
\* name the last gives the value; the row of the raw table holds these values.
C20_ParseEvent ==
    \A k \in 1..Len(cal) :
        /\ is_parse_of(parse_event(lines_of(k)), lines_of(k))
        /\ (pc # "start" /\ ~CreateRaised /\ df # NoTable) =>
              \A col \in df.columns :
                  df.rows[k][col] = IF col \in DOMAIN parse_event(lines_of(k))
                                    THEN parse_event(lines_of(k))[col]
                                    ELSE None

\* the raw table of an event with two DESCRIPTION lines around a line without a
\* colon: one column, holding the value of the second line, colon included
C20_Witness ==
    /\ pc = "created"
    /\ Len(cal) = 1
    /\ Len(cal[1]) = 3
    /\ lines_of(1) = <<<<"D","E","S","C","R","I","P","T","I","O","N",":","T","e","i","l","n","e","h","m","e","r",":"," ","4","0","0","0","0">>, <<"R","a","u","m"," ","1">>, <<"D","E","S","C","R","I","P","T","I","O","N",":","C","a","t","e","r","i","n","g",":"," ","j","a">>>>
    /\ df.columns = {<<"D","E","S","C","R","I","P","T","I","O","N">>}
    /\ df.rows[1][<<"D","E","S","C","R","I","P","T","I","O","N">>] = <<"C","a","t","e","r","i","n","g",":"," ","j","a">>

-----------------------------------------------------------------------------
(* C21 *)

\* C21: every column of the returned table is a name of the fixed layout, the
\* columns are in the layout's relative order, and no denylisted raw field and no
\* other raw field outside the layout is among them.
C21_LayoutOnly ==
    Returned =>
        /\ Range(out.columns) \subseteq Range(new_column_layout)
        /\ \A m, n \in 1..Len(out.columns) :
              m < n => position(new_column_layout, out.columns[m])
                         < position(new_column_layout, out.columns[n])
        /\ Range(out.columns) \cap columns_to_drop = {}
        /\ \A col \in df.columns :
              col \notin Range(new_column_layout) => col \notin Range(out.columns)
        /\ \A k \in 1..Len(out.rows) : DOMAIN out.rows[k] = Range(out.columns)

\* a table was returned for an event with a denylisted field (BEGIN), a field in no
\* list (LOCATION) and a description: it has event_desc and neither of the two
C21_Witness ==
    /\ Returned
    /\ {<<"B","E","G","I","N">>, <<"L","O","C","A","T","I","O","N">>, <<"D","E","S","C","R","I","P","T","I","O","N">>} \subseteq df.columns
    /\ <<"e","v","e","n","t","_","d","e","s","c">> \in Range(out.columns)
    /\ <<"B","E","G","I","N">> \notin Range(out.columns)
    /\ <<"L","O","C","A","T","I","O","N">> \notin Range(out.columns)

-----------------------------------------------------------------------------
(* C22 *)

\* C22: clean_calendar_dataframe leaves the table passed in as it is, columns, rows
\* and values, in every step it takes, whether it goes on to return or to fail (the
\* canonicalization tables are dicts built anew inside every call).
C22_InputUntouched ==
    [][(pc \in {"created", "apply"}) => (df' = df)]_vars

\* a table was returned, and the table passed in still is what
\* create_dataframe_from_calendar built: it has the column BEGIN the working table
\* lost and not the column event_desc_list the working table gained
C22_Witness ==
    /\ Returned
    /\ Len(out.rows) = 2
    /\ df = create_dataframe_from_calendar(cal, hash_order)
    /\ <<"B","E","G","I","N">> \in df.columns
    /\ <<"B","E","G","I","N">> \notin temp_df_processed.columns
    /\ <<"e","v","e","n","t","_","d","e","s","c","_","l","i","s","t">> \in temp_df_processed.columns
    /\ <<"e","v","e","n","t","_","d","e","s","c","_","l","i","s","t">> \notin df.columns

-----------------------------------------------------------------------------
(* C23 *)

\* the six equipment locals
equipment_locals ==
    {locals.equipment, locals.equipment_vr, locals.equipment_eye_tracking,
     locals.equipment_clevertouch, locals.equipment_large_monitor,
     locals.equipment_design_thinking}

\* C23: a Technik paragraph without text after the label, the first of its list or
\* not, is processed without error and leaves equip and the five sub-flags false.
C23_EmptyTechnik ==
    \A p \in Range(ParagraphPool) :
        (Label(p) = 4 /\ ~Truthy(split_item(p))) =>
            /\ ~(JustRaised(4) /\ series[item] = p)
            /\ JustProcessed(4, p) => equipment_locals = {False}

-----------------------------------------------------------------------------
(* C24 *)

\* the locals of process_description, by name, when it returns for row k
fields_of(k) ==
    IF paragraphs_of(k) = NoList THEN InitLocals
    ELSE run_items(InitLocals, paragraphs_of(k)).locals

-----------------------------------------------------------------------------
(* C25 *)

no_space(p) == \A k \in 1..Len(p) : p[k] # " "

\* everything after the first space character of p, trimmed
after_first_space(p) ==
    LET k == CHOOSE n \in 1..Len(p) : p[n] = " " /\ \A m \in 1..(n - 1) : p[m] # " "
    IN  strip(SubSeq(p, k + 1, Len(p)))

\* on every paragraph of NoSpacePool the rules work on the text after the first
\* space, and on no text when the paragraph has no space
text_is_after_first_space ==
    \A n \in 1..Len(NoSpacePool) :
        LET p == NoSpacePool[n]
        IN  split_item(p) = IF no_space(p) THEN None ELSE after_first_space(p)

\* C25: the text a rule works on is everything after the first space of the
\* paragraph, trimmed; on a labelled paragraph without a space Kategorie and
\* Veranstalter leave every field unchanged, Teilnehmer sets participant_count
\* and Anmerkung sets notes to unset, and Catering sets catering to false, each
\* changing nothing else.
C25_NoSpaceNoText ==
    [][ /\ text_is_after_first_space
        /\ (InLoop /\ no_space(series[item]) /\ item' = item + 1) =>
              LET k == Label(series[item])
              IN  /\ k \in {0, 1, 2} => locals' = locals
                  /\ k = 3 => locals' = [locals EXCEPT !.participant_count = None]
                  /\ k = 5 => locals' = [locals EXCEPT !.catering = False]
                  /\ k = 6 => locals' = [locals EXCEPT !.notes = None] ]_vars

\* 'Catering:ja' was processed after 'Catering: ja' had set catering to true, and
\* catering is false
C25_Witness ==
    /\ JustProcessed(5, <<"C","a","t","e","r","i","n","g",":","j","a">>)
    /\ series = <<<<"C","a","t","e","r","i","n","g",":"," ","j","a">>, <<"C","a","t","e","r","i","n","g",":","j","a">>>>
    /\ locals.catering = False

====
